---- MODULE Spec2Model ----
(***************************************************************************)
(* plantbox: a discrete-time ecosystem on a bounded square grid.           *)
(*                                                                         *)
(*   board.rs  Board, BoardSection, Conditions, Effect, Location           *)
(*   plant.rs  Plant (Evolve, Lifespan)                                    *)
(*   main.rs   the driver's weather, harvest, drain and fire seeding       *)
(*                                                                         *)
(* Four specifications share the variables:                                *)
(*   Spec        one Plant on a Board, driven through the public API       *)
(*   SpecEffect  a Board under every Effect operator                       *)
(*   SpecLoc     Location::nearby / Location::within_range on one input    *)
(*   SpecDamage  Plant::damage on one input                                *)
(***************************************************************************)
EXTENDS Integers, Sequences, FiniteSets, TLC

VARIABLES
    board,   \* the Board: matrix[x][y] of BoardSection, and size
    plant,   \* the Plant under evolution
    prev,    \* the state an operation started from (evolve's `previous`)
    op,      \* the operation that produced the current state
    nops,    \* number of Effect operations applied so far
    call,    \* arguments of a call to a pure function
    ret,     \* what that call returned
    map,     \* the Map: its board snapshot, matrix and matrix_scaled
    main     \* the locals of main: the entities, the tick, the position

vars == <<board, plant, prev, op, nops, call, ret, map, main>>

(***************************************************************************)
(* Bounds of the model.                                                    *)
(***************************************************************************)
\* Board::new(size): the board has (BoardMax + 1) x (BoardMax + 1) sections
BoardMax == 1
\* Plant.age is only ever incremented; evolve is called while age < MaxAge
MaxAge == 14
\* the most rain the harness hands to Effect::Moisture(v).apply_global (the
\* driver's rain is 6)
MaxMoisture == 6
\* number of Effect operations in a run of SpecEffect
MaxEffects == 2
\* largest amount handed to Plant::damage by SpecDamage
MaxDamage == 3
\* largest Board::new(size) / Location.max explored by SpecLoc
MaxLocMax == 3
\* largest range handed to within_range
MaxRange == 3
\* largest num handed to propagate
MaxNum == 2
\* largest Board::new(size) a Map is made of in SpecMap
MaxMapMax == 3
\* largest scale handed to Map::render
MaxScale == 4
\* tick_max of main: the last tick the driver runs
TickMax == 7
\* ticks the driver is followed for through the life of one plant
LifeTicks == 82
\* plant_limit of main: the population above which the driver sets fires
PlantLimit == 2
\* population at which the driver's plants are taken to draw no offspring
MaxPlants == 3

(***************************************************************************)
(* Helpers on sequences.                                                   *)
(***************************************************************************)
SeqToSet(s) == {s[i] : i \in 1..Len(s)}

NoDuplicates(s) == \A i, j \in 1..Len(s) : s[i] = s[j] => i = j

\* (lo..=hi).collect()
RangeInclusive(lo, hi) == [i \in 1..(IF hi < lo THEN 0 ELSE hi - lo + 1) |-> lo + i - 1]

RECURSIVE Flatten(_)
Flatten(ss) == IF ss = <<>> THEN <<>> ELSE Head(ss) \o Flatten(Tail(ss))

(***************************************************************************)
(* board.rs: Location                                                      *)
(***************************************************************************)
Location(max, x, y) == [max |-> max, x |-> x, y |-> y]

\* every Location on a board of the given size
Locations(max) == {Location(max, x, y) : x \in 0..max, y \in 0..max}

\* the eight candidates in the order nearby() pushes them
nearby_candidates(self) ==
    << Location(self.max, self.x - 1, self.y - 1),
       Location(self.max, self.x,     self.y - 1),
       Location(self.max, self.x + 1, self.y - 1),
       Location(self.max, self.x + 1, self.y),
       Location(self.max, self.x + 1, self.y + 1),
       Location(self.max, self.x,     self.y + 1),
       Location(self.max, self.x - 1, self.y + 1),
       Location(self.max, self.x - 1, self.y) >>

nearby_keeps_negative(self) ==
    LET not_beyond(c) == c.x <= self.max /\ c.y <= self.max
    IN  SelectSeq(nearby_candidates(self), not_beyond)

\* takes the edge of the board for beyond it
nearby_off_the_edge(self) ==
    LET not_negative(c) == ~(c.x <= 0) /\ ~(c.y <= 0)
        not_beyond(c)   == c.x < self.max /\ c.y < self.max
    IN  SelectSeq(SelectSeq(nearby_candidates(self), not_negative), not_beyond)

nearby(self) ==
    LET not_negative(c) == ~(c.x < 0) /\ ~(c.y < 0)
        not_beyond(c)   == c.x <= self.max /\ c.y <= self.max
    IN  SelectSeq(SelectSeq(nearby_candidates(self), not_negative), not_beyond)

min_max_unclipped(self, range, l) ==
    LET min == IF l - range < 0 THEN 0 ELSE l - range
    IN  RangeInclusive(min, l + range)

\* the closure min_max of within_range
min_max(self, range, l) ==
    LET min == IF l - range < 0 THEN 0 ELSE l - range
        max == IF l + range > self.max THEN self.max ELSE l + range
    IN  RangeInclusive(min, max)

within_range_includes_self(self, range) ==
    LET xs == min_max(self, range, self.x)
        ys == min_max(self, range, self.y)
        column(x) == [j \in 1..Len(ys) |-> Location(self.max, x, ys[j])]
    IN  Flatten([i \in 1..Len(xs) |-> column(xs[i])])

within_range(self, range) ==
    LET xs == min_max(self, range, self.x)
        ys == min_max(self, range, self.y)
        other(c) == ~(self.x = c.x /\ self.y = c.y)
        column(x) == SelectSeq([j \in 1..Len(ys) |-> Location(self.max, x, ys[j])], other)
    IN  Flatten([i \in 1..Len(xs) |-> column(xs[i])])

(***************************************************************************)
(* board.rs: Board, BoardSection, Conditions                               *)
(***************************************************************************)
Conditions(light, moisture, oxygen) ==
    [light |-> light, moisture |-> moisture, oxygen |-> oxygen]

BoardSection(conditions, location) ==
    [conditions |-> conditions, location |-> location]

\* Board::new(size): matrix[x][y], every section zeroed
\* writes each section's location as {max: size, x: y, y: x}
Board_new_transposed(size) ==
    [matrix |-> [x \in 0..size |-> [y \in 0..size |->
                   BoardSection(Conditions(0, 0, 0), Location(size, y, x))]],
     size |-> size]

Board_new(size) ==
    [ matrix |-> [x \in 0..size |-> [y \in 0..size |->
                    BoardSection(Conditions(0, 0, 0), Location(size, x, y))]],
      size   |-> size ]

(***************************************************************************)
(* board.rs: Effect                                                        *)
(***************************************************************************)
Light(v)    == [kind |-> "Light", v |-> v]
Moisture(v) == [kind |-> "Moisture", v |-> v]
Oxygen(v)   == [kind |-> "Oxygen", v |-> v]

\* `+=` on i64: the sum as it is, no clamping of any kind.  (Overflow of an
\* i64 needs magnitudes of 2^63, far beyond the deltas explored here.)
\* gives Oxygen an effect, on the oxygen of the section
append_to_section_breathes(self, section) ==
    CASE self.kind = "Light" ->
           [section EXCEPT !.conditions.light = @ + self.v]
      [] self.kind = "Moisture" ->
           [section EXCEPT !.conditions.moisture = @ + self.v]
      [] OTHER -> [section EXCEPT !.conditions.oxygen = @ + self.v]

append_to_section(self, section) ==
    CASE self.kind = "Light" ->
           [section EXCEPT !.conditions.light = @ + self.v]
      [] self.kind = "Moisture" ->
           [section EXCEPT !.conditions.moisture = @ + self.v]
      [] OTHER -> section

apply_to_section_adds(self, section) ==
    CASE self.kind = "Light" ->
           [section EXCEPT !.conditions.light = @ + self.v]
      [] self.kind = "Moisture" ->
           [section EXCEPT !.conditions.moisture = @ + self.v]
      [] OTHER -> section

apply_to_section(self, section) ==
    CASE self.kind = "Light" ->
           [section EXCEPT !.conditions.light = self.v]
      [] self.kind = "Moisture" ->
           [section EXCEPT !.conditions.moisture = self.v]
      [] OTHER -> section

\* stops after the first row of the matrix
append_global_first_row(self, b) ==
    [b EXCEPT !.matrix[0] = [y \in DOMAIN b.matrix[0] |->
                               append_to_section(self, b.matrix[0][y])]]

append_global(self, b) ==
    [b EXCEPT !.matrix = [x \in DOMAIN b.matrix |-> [y \in DOMAIN b.matrix[x] |->
                            append_to_section(self, b.matrix[x][y])]]]

apply_global(self, b) ==
    [b EXCEPT !.matrix = [x \in DOMAIN b.matrix |-> [y \in DOMAIN b.matrix[x] |->
                            apply_to_section(self, b.matrix[x][y])]]]

(***************************************************************************)
(* plant.rs: Plant                                                         *)
(*                                                                         *)
(* The f64 chances and random draws are counted in units of 1/100000:      *)
(* offspring_chance 0.2 is 20000, a draw U in [0,1) is 0..99999.           *)
(***************************************************************************)
PlantKinds == {"Fern", "Tree"}

age_max_of(kind)             == IF kind = "Fern" THEN 12 ELSE 80
flammability_chance_of(kind) == IF kind = "Fern" THEN 99996 ELSE 99999
health_max_of(kind)          == IF kind = "Fern" THEN 10 ELSE 18
offspring_chance_of(kind)    == IF kind = "Fern" THEN 20000 ELSE 20000
offspring_range_of(kind)     == IF kind = "Fern" THEN 1 ELSE 3
size_max_of(kind)            == IF kind = "Fern" THEN 8 ELSE 50
requirements_of(kind) ==
    IF kind = "Fern" THEN [light |-> Light(20), moisture |-> Moisture(2)]
                     ELSE [light |-> Light(20), moisture |-> Moisture(4)]

\* Plant::new(kind, board), with the outcome of Location::new_random given
Plant_new(kind, location) ==
    [ age                 |-> 0,
      age_max             |-> age_max_of(kind),
      flammability_chance |-> flammability_chance_of(kind),
      on_fire             |-> FALSE,
      health              |-> 1,
      health_max          |-> health_max_of(kind),
      kind                |-> kind,
      location            |-> location,
      messages            |-> <<>>,
      offspring           |-> <<>>,
      offspring_chance    |-> offspring_chance_of(kind),
      offspring_range     |-> offspring_range_of(kind),
      requirements        |-> requirements_of(kind),
      size                |-> 1,
      size_max            |-> size_max_of(kind) ]

\* representative outcomes of rand::thread_rng().gen::<f64>(): both sides of
\* offspring_chance, both sides of the first whole point of fire damage to a
\* Tree, and the two ends of [0,1)
Draws == {0, 19999, 20000, 55555, 55556, 99999}

\* takes a health of 0 for alive
alive_at_zero(self) == self.health >= 0

alive(self) == self.health > 0

\* health.checked_sub(damage).unwrap_or(0): checked_sub is None only when the
\* difference leaves i64, which it cannot for a health and a damage >= 0; in
\* every other case it is Some(health - damage), negative included
damage(self, amount) ==
    [self EXCEPT !.health = @ - amount]

\* grows without looking at health_max and size_max
grow_unbounded(self) ==
    [self EXCEPT !.health = @ + 1, !.size = @ + 1]

grow(self) ==
    [self EXCEPT !.health = IF @ < self.health_max THEN @ + 1 ELSE @,
                 !.size   = IF @ < self.size_max THEN @ + 1 ELSE @]

\* the candidate locations propagate picks from
propagate_locations(self) ==
    IF self.offspring_range = 1 THEN nearby(self.location)
                                ELSE within_range(self.location, self.offspring_range)

\* rng.gen_range(0..locations.len()) panics on an empty range
propagate_panics(self) == Len(propagate_locations(self)) = 0

\* the outcomes of rng.gen_range(0..locations.len()), counted from 1
Picks(self) == IF propagate_panics(self) THEN {1}
               ELSE 1..Len(propagate_locations(self))

\* plants every seedling one column beyond the edge of the board
propagate_beyond(self, num, pick) ==
    [i \in 1..num |->
        Plant_new(self.kind, [self.location EXCEPT !.x = self.location.max + 1])]

\* plants every seedling in the parent's own section
propagate_in_place(self, num, pick) ==
    [i \in 1..num |-> Plant_new(self.kind, self.location)]

\* propagate(num) with the outcome `pick` of the random choice of location
propagate(self, num, pick) ==
    LET location == propagate_locations(self)[pick]
        sprout == [ age                 |-> 0,
                    flammability_chance |-> self.flammability_chance,
                    health              |-> 1,
                    health_max          |-> self.health_max,
                    kind                |-> self.kind,
                    location            |-> location,
                    age_max             |-> self.age_max,
                    messages            |-> <<>>,
                    offspring           |-> <<>>,
                    offspring_chance    |-> self.offspring_chance,
                    offspring_range     |-> self.offspring_range,
                    on_fire             |-> FALSE,
                    requirements        |-> self.requirements,
                    size                |-> 1,
                    size_max            |-> self.size_max ]
    IN  [i \in 1..num |-> sprout]

\* fire damage without the factor 0.1
calc_damage_whole(self, rand) == (self.health_max * rand) \div 100000

\* (health_max as f64 * rand) * 0.1, then `as i64` (truncation)
calc_damage(self, rand) == (self.health_max * rand) \div 1000000

mature_above_half(self) == 2 * self.size > self.size_max

\* size as f64 / size_max as f64 > 0.8
mature(self) == 5 * self.size > 4 * self.size_max

\* one call's outcome: the plant, its section, and whether the call panicked
Outcome(self, section, panic) == [self |-> self, section |-> section, panic |-> panic]

\* a Respiration block that a burning plant goes through as well
respiration_in_flames(self, section, rand, pick) ==
    LET v == self.requirements.moisture.v
    IN  IF self.requirements.moisture.kind = "Moisture"
           /\ section.conditions.moisture >= v
        THEN LET fed   == [section EXCEPT !.conditions.moisture = @ - v]
                 grown == grow(self)
             IN  IF mature(grown)
                 THEN IF rand < grown.offspring_chance
                      THEN IF propagate_panics(grown)
                           THEN Outcome(grown, fed, TRUE)
                           ELSE Outcome([grown EXCEPT !.offspring = propagate(grown, 1, pick)],
                                        fed, FALSE)
                      ELSE Outcome([grown EXCEPT !.offspring = <<>>], fed, FALSE)
                 ELSE Outcome(damage(grown, 1),
                              [fed EXCEPT !.conditions.moisture = 0], FALSE)
        ELSE Outcome(self, section, FALSE)

\* the Respiration block of biology
respiration(self, section, rand, pick) ==
    LET v == self.requirements.moisture.v
    IN  IF self.requirements.moisture.kind = "Moisture"
           /\ section.conditions.moisture >= v /\ ~self.on_fire
        THEN LET fed   == [section EXCEPT !.conditions.moisture = @ - v]
                 grown == grow(self)
             IN  IF mature(grown)
                 THEN IF rand < grown.offspring_chance
                      THEN IF propagate_panics(grown)
                           THEN Outcome(grown, fed, TRUE)
                           ELSE Outcome([grown EXCEPT !.offspring = propagate(grown, 1, pick)],
                                        fed, FALSE)
                      ELSE Outcome([grown EXCEPT !.offspring = <<>>], fed, FALSE)
                 ELSE \* the else of the maturity test, not of the moisture test
                      Outcome(damage(grown, 1),
                              [fed EXCEPT !.conditions.moisture = 0], FALSE)
        ELSE Outcome(self, section, FALSE)

\* a biology in which old age does not kill
biology_ageless(self, section, rand, pick) ==
    LET aged == [self EXCEPT !.age = @ + 1]
    IN  IF ~alive(aged) THEN Outcome(aged, section, FALSE)
        ELSE LET burnt == IF aged.on_fire THEN damage(aged, calc_damage(aged, rand))
                                          ELSE aged
             IN  IF aged.on_fire /\ ~alive(burnt)
                 THEN Outcome(burnt, section, FALSE)
                 ELSE respiration(burnt, section, rand, pick)

\* a biology that lets the plant burn, drink, grow and sow before it dies of
\* old age
biology_old_age_last(self, section, rand, pick) ==
    LET aged == [self EXCEPT !.age = @ + 1]
    IN  IF ~alive(aged) THEN Outcome(aged, section, FALSE)
        ELSE LET burnt == IF aged.on_fire THEN damage(aged, calc_damage(aged, rand))
                                          ELSE aged
                 lived == IF aged.on_fire /\ ~alive(burnt)
                          THEN Outcome(burnt, section, FALSE)
                          ELSE respiration(burnt, section, rand, pick)
             IN  IF aged.age > aged.age_max
                 THEN [lived EXCEPT !.self.health = 0]
                 ELSE lived

\* a biology that grants one evolve more than age_max + 1
biology_outlives(self, section, rand, pick) ==
    LET aged == [self EXCEPT !.age = @ + 1]
    IN  IF ~alive(aged) THEN Outcome(aged, section, FALSE)
        ELSE IF aged.age > aged.age_max + 1
        THEN Outcome([aged EXCEPT !.health = 0], section, FALSE)
        ELSE LET burnt == IF aged.on_fire THEN damage(aged, calc_damage(aged, rand))
                                          ELSE aged
             IN  IF aged.on_fire /\ ~alive(burnt)
                 THEN Outcome(burnt, section, FALSE)
                 ELSE respiration(burnt, section, rand, pick)

\* Lifespan::biology: always returns None, its effects are on self and section
biology(self, section, rand, pick) ==
    LET aged == [self EXCEPT !.age = @ + 1]
    IN  IF ~alive(aged) THEN Outcome(aged, section, FALSE)
        ELSE IF aged.age > aged.age_max
        THEN Outcome([aged EXCEPT !.health = 0], section, FALSE)
        ELSE LET burnt == IF aged.on_fire THEN damage(aged, calc_damage(aged, rand))
                                          ELSE aged
             IN  IF aged.on_fire /\ ~alive(burnt)
                 THEN Outcome(burnt, section, FALSE)
                 ELSE respiration(burnt, section, rand, pick)

\* takes the light of the section as well
evolve_in_the_dark(self, section, rand, pick) ==
    LET after == biology(self, section, rand, pick)
        lit == IF after.self.health = 0 /\ self.health # 0
               THEN [after EXCEPT !.self.messages =
                        Append(@, "The " \o after.self.kind \o " perishes")]
               ELSE after
    IN  [lit EXCEPT !.section.conditions.light = 0]

\* pushes the message for every dead plant, newly dead or not
evolve_mourns_the_dead(self, section, rand, pick) ==
    LET after == biology(self, section, rand, pick)
    IN  IF after.self.health = 0
        THEN [after EXCEPT !.self.messages =
                 Append(@, "The " \o after.self.kind \o " perishes")]
        ELSE after

\* Evolve::evolve: biology, then the death message
evolve(self, section, rand, pick) ==
    LET previous == self
        after == biology(self, section, rand, pick)
    IN  IF after.self.health = 0 /\ previous.health # 0
        THEN [after EXCEPT !.self.messages =
                 Append(@, "The " \o after.self.kind \o " perishes")]
        ELSE after

(***************************************************************************)
(* Spec: one Plant on a Board.  The harness does what main.rs does to a    *)
(* plant, in any order: it waters the board, evolves the plant against its *)
(* own section, harvests its offspring, drains its messages, sets it on    *)
(* fire.                                                                   *)
(***************************************************************************)
Idle == [fn |-> "none"]

section_of(b, location) == b.matrix[location.x][location.y]

\* what an operation started from
Snapshot(self, section) == [self |-> self, section |-> section]

Init ==
    /\ board = Board_new(BoardMax)
    /\ \E kind \in PlantKinds : \E location \in Locations(BoardMax) :
           plant = Plant_new(kind, location)
    /\ prev = Snapshot(plant, section_of(board, plant.location))
    /\ op = "new"
    /\ nops = 0
    /\ call = Idle
    /\ ret = Idle
    /\ map = Idle
    /\ main = Idle

\* the amounts of rain the harness hands out: none, half and all of MaxMoisture
Rains == {0, MaxMoisture \div 2, MaxMoisture}

\* main.rs: rain.apply_global(&mut board), for each amount of rain
Water ==
    /\ op # "panic"
    /\ \E v \in Rains :
           board' = apply_global(Moisture(v), board)
    /\ prev' = Snapshot(plant, section_of(board', plant.location))
    /\ op' = "water"
    /\ UNCHANGED <<plant, nops, call, ret, map, main>>

\* propagate draws its pick only where biology calls it: for a grown plant
\* that is mature and a spawn_chance below offspring_chance
DrawsPick(self, rand) == rand < self.offspring_chance /\ mature(grow(self))

\* main.rs: e.evolve(&mut board.matrix[e.location.x][e.location.y])
Evolve ==
    /\ op # "panic"
    /\ plant.age < MaxAge
    /\ \E rand \in Draws :
       \E pick \in (IF DrawsPick(plant, rand) THEN Picks(plant) ELSE {1}) :
           LET section == section_of(board, plant.location)
               after == evolve(plant, section, rand, pick)
           IN  /\ plant' = after.self
               /\ board' = [board EXCEPT
                              !.matrix[plant.location.x][plant.location.y] = after.section]
               /\ prev' = Snapshot(plant, section)
               /\ op' = IF after.panic THEN "panic" ELSE "evolve"
    /\ UNCHANGED <<nops, call, ret, map, main>>

\* main.rs: new_plants.push(p.clone()) for each offspring; e.offspring.clear()
Harvest ==
    /\ op # "panic"
    /\ plant.offspring # <<>>
    /\ plant' = [plant EXCEPT !.offspring = <<>>]
    /\ prev' = Snapshot(plant', section_of(board, plant.location))
    /\ op' = "harvest"
    /\ UNCHANGED <<board, nops, call, ret, map, main>>

\* main.rs: the messages are printed; e.messages.clear()
Drain ==
    /\ op # "panic"
    /\ plant.messages # <<>>
    /\ plant' = [plant EXCEPT !.messages = <<>>]
    /\ prev' = Snapshot(plant', section_of(board, plant.location))
    /\ op' = "drain"
    /\ UNCHANGED <<board, nops, call, ret, map, main>>

\* main.rs: slash and burn, for a plant the retain above left in the
\* population (a living one) and a draw below its flammability_chance
Ignite ==
    /\ op # "panic"
    /\ alive(plant)
    /\ ~plant.on_fire
    /\ \E flammable \in Draws : flammable < plant.flammability_chance
    /\ plant' = [plant EXCEPT !.on_fire = TRUE]
    /\ prev' = Snapshot(plant', section_of(board, plant.location))
    /\ op' = "ignite"
    /\ UNCHANGED <<board, nops, call, ret, map, main>>

Next == Water \/ Evolve \/ Harvest \/ Drain \/ Ignite

Spec == Init /\ [][Next]_vars

(***************************************************************************)
(* SpecEffect: a Board under at most MaxEffects Effect operations, each    *)
(* global or on one section, apply or append, with any Effect of           *)
(* EffectInputs.  op records the operation, prev the board it started      *)
(* from.                                                                   *)
(***************************************************************************)
\* signed deltas: one below zero, zero, one above, and the driver's sunlight
Deltas == {-7, 0, 5, 70}

EffectInputs ==
    {Light(v) : v \in Deltas} \cup {Moisture(v) : v \in Deltas}
        \cup {Oxygen(v) : v \in Deltas}

Operation(name, effect, x, y) == [name |-> name, effect |-> effect, x |-> x, y |-> y]

InitEffect ==
    /\ \E size \in 0..BoardMax : board = Board_new(size)
    /\ plant = Idle
    /\ prev = board
    /\ op = Operation("new", Oxygen(0), 0, 0)
    /\ nops = 0
    /\ call = Idle
    /\ ret = Idle
    /\ map = Idle
    /\ main = Idle

AppendGlobal ==
    /\ nops < MaxEffects
    /\ \E e \in EffectInputs :
           /\ board' = append_global(e, board)
           /\ op' = Operation("append_global", e, 0, 0)
    /\ prev' = board
    /\ nops' = nops + 1
    /\ UNCHANGED <<plant, call, ret, map, main>>

ApplyGlobal ==
    /\ nops < MaxEffects
    /\ \E e \in EffectInputs :
           /\ board' = apply_global(e, board)
           /\ op' = Operation("apply_global", e, 0, 0)
    /\ prev' = board
    /\ nops' = nops + 1
    /\ UNCHANGED <<plant, call, ret, map, main>>

AppendToSection ==
    /\ nops < MaxEffects
    /\ \E e \in EffectInputs : \E x \in 0..board.size : \E y \in 0..board.size :
           /\ board' = [board EXCEPT !.matrix[x][y] = append_to_section(e, @)]
           /\ op' = Operation("append_to_section", e, x, y)
    /\ prev' = board
    /\ nops' = nops + 1
    /\ UNCHANGED <<plant, call, ret, map, main>>

ApplyToSection ==
    /\ nops < MaxEffects
    /\ \E e \in EffectInputs : \E x \in 0..board.size : \E y \in 0..board.size :
           /\ board' = [board EXCEPT !.matrix[x][y] = apply_to_section(e, @)]
           /\ op' = Operation("apply_to_section", e, x, y)
    /\ prev' = board
    /\ nops' = nops + 1
    /\ UNCHANGED <<plant, call, ret, map, main>>

NextEffect == AppendGlobal \/ ApplyGlobal \/ AppendToSection \/ ApplyToSection

SpecEffect == InitEffect /\ [][NextEffect]_vars

(***************************************************************************)
(* SpecLoc: nearby() and within_range(range) called on one Location.       *)
(***************************************************************************)
InitLoc ==
    /\ board = Idle
    /\ plant = Idle
    /\ prev = Idle
    /\ op = "new"
    /\ nops = 0
    /\ \E max \in 0..MaxLocMax : \E self \in Locations(max) : \E range \in 1..MaxRange :
           call = [fn |-> "none", self |-> self, range |-> range]
    /\ ret = <<>>
    /\ map = Idle
    /\ main = Idle

CallNearby ==
    /\ call.fn = "none"
    /\ call' = [call EXCEPT !.fn = "nearby"]
    /\ ret' = nearby(call.self)
    /\ UNCHANGED <<board, plant, prev, op, nops, map, main>>

CallWithinRange ==
    /\ call.fn = "none"
    /\ call' = [call EXCEPT !.fn = "within_range"]
    /\ ret' = within_range(call.self, call.range)
    /\ UNCHANGED <<board, plant, prev, op, nops, map, main>>

NextLoc == CallNearby \/ CallWithinRange

SpecLoc == InitLoc /\ [][NextLoc]_vars

(***************************************************************************)
(* SpecDamage: Plant::damage(amount) called once on a plant of any health  *)
(* from 0 to its health_max.                                               *)
(***************************************************************************)
InitDamage ==
    /\ board = Idle
    /\ prev = Idle
    /\ op = "new"
    /\ nops = 0
    /\ \E kind \in PlantKinds : \E health \in 0..health_max_of(kind) :
       \E amount \in 0..MaxDamage :
           /\ plant = [Plant_new(kind, Location(BoardMax, 0, 0)) EXCEPT !.health = health]
           /\ call = [fn |-> "none", health |-> health, amount |-> amount]
    /\ ret = Idle
    /\ map = Idle
    /\ main = Idle

CallDamage ==
    /\ call.fn = "none"
    /\ call' = [call EXCEPT !.fn = "damage"]
    /\ plant' = damage(plant, call.amount)
    /\ UNCHANGED <<board, prev, op, nops, ret, map, main>>

NextDamage == CallDamage

SpecDamage == InitDamage /\ [][NextDamage]_vars

(***************************************************************************)
(* Properties of Plant::evolve, under Spec.                                *)
(***************************************************************************)
Min(a, b) == IF a < b THEN a ELSE b
Max(a, b) == IF a > b THEN a ELSE b

\* the moisture the plant requires of its section
required_moisture(self) == self.requirements.moisture.v

\* the evolve call just made found the plant alive and left it within age_max
EvolvedWithinLifespan ==
    /\ op = "evolve"
    /\ alive(prev.self)
    /\ prev.self.age + 1 <= prev.self.age_max

\* C1: an evolve of a living plant within its lifespan whose section holds
\* less moisture than the plant requires leaves the section's moisture at 0
\* and the plant's health lower by exactly 1, floored at 0.
C1_ThirstDrainsAndDamages ==
    (EvolvedWithinLifespan
        /\ prev.section.conditions.moisture < required_moisture(prev.self))
    => /\ section_of(board, plant.location).conditions.moisture = 0
       /\ plant.health = Max(prev.self.health - 1, 0)

\* C2: an evolve of a living plant within its lifespan and not on fire, whose
\* section holds moisture m >= the required v, leaves the moisture at m - v,
\* health at min(health + 1, health_max) and size at min(size + 1, size_max),
\* for immature plants as for mature ones.
C2_FedPlantGrows ==
    (EvolvedWithinLifespan
        /\ ~prev.self.on_fire
        /\ prev.section.conditions.moisture >= required_moisture(prev.self))
    => /\ section_of(board, plant.location).conditions.moisture
              = prev.section.conditions.moisture - required_moisture(prev.self)
       /\ plant.health = Min(prev.self.health + 1, prev.self.health_max)
       /\ plant.size = Min(prev.self.size + 1, prev.self.size_max)

\* C3: an evolve of a living plant whose incremented age exceeds age_max ends
\* with health 0, whatever its health, size, fire state and moisture were; so
\* after an evolve no plant is alive with age > age_max.
C3_OldAgeKills ==
    /\ (op = "evolve" /\ alive(prev.self) /\ prev.self.age + 1 > prev.self.age_max)
           => plant.health = 0
    /\ op = "evolve" => ~(alive(plant) /\ plant.age > plant.age_max)

\* a healthy, grown, watered plant has just died of old age
C3_Witness ==
    /\ op = "evolve"
    /\ prev.self.age = prev.self.age_max
    /\ prev.self.health > 1
    /\ prev.self.size > 1
    /\ prev.section.conditions.moisture >= required_moisture(prev.self)
    /\ plant.age = plant.age_max + 1
    /\ plant.health = 0

\* C4 as claimed: a plant with size/size_max <= 0.8 when evolve is called, and
\* an empty offspring buffer, has an empty offspring buffer after evolve.
C4_ImmatureAtCallNeverSpawns ==
    (op = "evolve" /\ prev.self.offspring = <<>> /\ ~mature(prev.self))
    => plant.offspring = <<>>

\* C4 as amended: a plant with size/size_max <= 0.8 after the growth of this
\* evolve call, and an empty offspring buffer when it was called, has an
\* empty offspring buffer after evolve, whatever the random draws.
C4_ImmatureAfterGrowthNeverSpawns ==
    (op = "evolve" /\ prev.self.offspring = <<>>
        /\ 5 * plant.size <= 4 * plant.size_max)
    => plant.offspring = <<>>

\* an immature plant was fed and grew, and is still immature
C4_Witness ==
    /\ op = "evolve"
    /\ prev.self.offspring = <<>>
    /\ plant.size = prev.self.size + 1
    /\ 5 * plant.size <= 4 * plant.size_max
    /\ plant.offspring = <<>>

(***************************************************************************)
(* Properties of Plant::damage, under SpecDamage.                          *)
(***************************************************************************)
\* C5: damage(amount) is a saturating subtraction: health afterwards is
\* max(health - amount, 0), never negative, also for amount > health.
C5_DamageSaturates ==
    call.fn = "damage"
    => /\ plant.health = Max(call.health - call.amount, 0)
       /\ plant.health >= 0

(***************************************************************************)
(* Properties of the Effect operators, under SpecEffect.                   *)
(***************************************************************************)
\* the last operation was an append that reached section (x, y)
AppendedTo(x, y) ==
    \/ op.name = "append_global"
    \/ op.name = "append_to_section" /\ op.x = x /\ op.y = y

\* C6: an append (to one section or global) of a negative delta whose
\* magnitude exceeds the section's light or moisture leaves that value at 0.
C6_AppendSaturates ==
    \A x \in 0..board.size : \A y \in 0..board.size :
        AppendedTo(x, y) =>
           /\ (op.effect.kind = "Light"
                  /\ prev.matrix[x][y].conditions.light + op.effect.v < 0)
                 => board.matrix[x][y].conditions.light = 0
           /\ (op.effect.kind = "Moisture"
                  /\ prev.matrix[x][y].conditions.moisture + op.effect.v < 0)
                 => board.matrix[x][y].conditions.moisture = 0

\* C7: in every state reachable from Board::new by Effect operations with
\* any signed delta, every section's light, moisture and oxygen are >= 0.
C7_ConditionsNonNegative ==
    \A x \in 0..board.size : \A y \in 0..board.size :
        /\ board.matrix[x][y].conditions.light >= 0
        /\ board.matrix[x][y].conditions.moisture >= 0
        /\ board.matrix[x][y].conditions.oxygen >= 0

\* C15: dead is terminal: an evolve called on a plant whose health is 0 leaves
\* health at 0 and changes nothing but age: size, location, on_fire,
\* offspring, messages and the section's conditions stay as they were.
C15_DeadIsTerminal ==
    (op = "evolve" /\ prev.self.health = 0)
    => /\ plant.health = 0
       /\ plant = [prev.self EXCEPT !.age = @ + 1]
       /\ section_of(board, plant.location) = prev.section

\* a burning plant that died earlier has been evolved again, on a section
\* holding the moisture it would have needed
C15_Witness ==
    /\ op = "evolve"
    /\ prev.self.health = 0
    /\ prev.self.on_fire
    /\ prev.self.age <= prev.self.age_max
    /\ prev.section.conditions.moisture >= required_moisture(prev.self)
    /\ plant.age = prev.self.age + 1

\* the message Plant::evolve pushes for a plant that has just died
death_message(self) == "The " \o self.kind \o " perishes"

\* C19: Plant::evolve appends exactly one death message iff health was nonzero
\* before the call and is zero after it, and leaves messages alone in every
\* other call; no other operation appends a message and a health of 0 never
\* becomes nonzero again, so a plant gets at most one death message in its life.
C19_Step ==
    /\ op' = "evolve"
           => plant'.messages =
                  IF plant.health # 0 /\ plant'.health = 0
                  THEN Append(plant.messages, death_message(plant))
                  ELSE plant.messages
    /\ op' # "evolve" => Len(plant'.messages) <= Len(plant.messages)
    /\ plant.health = 0 => plant'.health = 0

C19_OneDeathMessage == [][C19_Step]_vars

\* a plant has just burnt to death and its death message is the last message
C19_Witness ==
    /\ op = "evolve"
    /\ prev.self.health # 0
    /\ prev.self.on_fire
    /\ prev.self.age < prev.self.age_max
    /\ plant.health = 0
    /\ plant.messages = Append(prev.self.messages, death_message(plant))

\* C11: apply_global overwrites: after apply_global of Light(v) or Moisture(v)
\* with v >= 0 (Light(70) after Light(0), say) every section's field is
\* exactly v whatever it was before, and applying it again changes nothing.
C11_ApplyGlobalOverwrites ==
    (op.name = "apply_global" /\ op.effect.v >= 0)
    => /\ \A x \in 0..board.size : \A y \in 0..board.size :
              /\ op.effect.kind = "Light"
                     => board.matrix[x][y].conditions.light = op.effect.v
              /\ op.effect.kind = "Moisture"
                     => board.matrix[x][y].conditions.moisture = op.effect.v
       /\ apply_global(op.effect, board) = board

\* Light(70).apply_global has overwritten a light that was not the same in
\* every section, and nowhere 70
C11_Witness ==
    /\ op.name = "apply_global"
    /\ op.effect = Light(70)
    /\ \E x \in 0..prev.size : \E y \in 0..prev.size :
           prev.matrix[x][y].conditions.light # prev.matrix[0][0].conditions.light
    /\ \A x \in 0..prev.size : \A y \in 0..prev.size :
           prev.matrix[x][y].conditions.light # 70
    /\ \A x \in 0..board.size : \A y \in 0..board.size :
           board.matrix[x][y].conditions.light = 70

\* the value an Effect acts on, in a section's conditions
field_of(effect, conditions) ==
    CASE effect.kind = "Light" -> conditions.light
      [] effect.kind = "Moisture" -> conditions.moisture
      [] OTHER -> conditions.oxygen

\* C12: append_global accumulates: one append_global of Light(d) or
\* Moisture(d) with d > 0 raises the field by exactly d in every section, and
\* two of them in a row (Moisture(5) twice, say) by exactly 2 * d.
C12_AppendGlobalAccumulates ==
    /\ (op.name = "append_global" /\ op.effect.v > 0 /\ op.effect.kind # "Oxygen")
       => \A x \in 0..board.size : \A y \in 0..board.size :
              field_of(op.effect, board.matrix[x][y].conditions)
                  = field_of(op.effect, prev.matrix[x][y].conditions) + op.effect.v
    /\ \A e \in {Light(5), Moisture(5)} :
           LET twice == append_global(e, append_global(e, board))
           IN  \A x \in 0..board.size : \A y \in 0..board.size :
                   field_of(e, twice.matrix[x][y].conditions)
                       = field_of(e, board.matrix[x][y].conditions) + 10

\* Moisture(5).append_global has run twice in a row on the new board
C12_Witness ==
    /\ nops = 2
    /\ op.name = "append_global"
    /\ op.effect = Moisture(5)
    /\ prev = append_global(Moisture(5), Board_new(BoardMax))
    /\ \A x \in 0..board.size : \A y \in 0..board.size :
           board.matrix[x][y].conditions.moisture = 10

\* a board of (size + 1) x (size + 1) sections, the one at matrix[x][y]
\* holding the location {max: size, x, y}
BoardShape(b, size) ==
    /\ b.size = size
    /\ DOMAIN b.matrix = 0..size
    /\ \A x \in 0..size :
           /\ DOMAIN b.matrix[x] = 0..size
           /\ \A y \in 0..size : b.matrix[x][y].location = Location(size, x, y)

Abs(n) == IF n < 0 THEN -n ELSE n

\* the locations of the board at Chebyshev distance 1..range of self
InRange(self, range) ==
    {c \in Locations(self.max) :
        /\ Abs(c.x - self.x) <= range
        /\ Abs(c.y - self.y) <= range
        /\ ~(c.x = self.x /\ c.y = self.y)}

OnBorder(self, n) == n = 0 \/ n = self.max

\* C8: with max >= 2, nearby() returns exactly the in-board Moore neighbours
\* of the location, itself excluded, each once: 3 at a corner, 5 on a
\* non-corner edge, 8 in the interior, none outside [0, max].
C8_NearbyIsMooreNeighbourhood ==
    (call.fn = "nearby" /\ call.self.max >= 2)
    => /\ SeqToSet(ret) = InRange(call.self, 1)
       /\ NoDuplicates(ret)
       /\ \A i \in 1..Len(ret) :
              /\ ret[i].x >= 0 /\ ret[i].x <= call.self.max
              /\ ret[i].y >= 0 /\ ret[i].y <= call.self.max
       /\ Len(ret) = IF OnBorder(call.self, call.self.x) /\ OnBorder(call.self, call.self.y)
                     THEN 3
                     ELSE IF OnBorder(call.self, call.self.x) \/ OnBorder(call.self, call.self.y)
                     THEN 5
                     ELSE 8

\* nearby() was called on a non-corner edge and returned 5 locations
C8_Witness ==
    /\ call.fn = "nearby"
    /\ call.self.max >= 2
    /\ call.self.x = 0
    /\ call.self.y > 0 /\ call.self.y < call.self.max
    /\ Len(ret) = 5

\* C9: for every in-board Location, any max >= 0, within_range(1) and
\* nearby() return the same set of locations, and as many of them.
C9_WithinRangeOneIsNearby ==
    (call.fn = "within_range" /\ call.range = 1)
    => /\ SeqToSet(ret) = SeqToSet(nearby(call.self))
       /\ Len(ret) = Len(nearby(call.self))

\* within_range(1) was called on the upper-right corner and returned 3
C9_Witness ==
    /\ call.fn = "within_range"
    /\ call.range = 1
    /\ call.self.max >= 1
    /\ call.self.x = call.self.max /\ call.self.y = call.self.max
    /\ Len(ret) = 3

\* C10: for every in-board Location and range >= 1, within_range(range)
\* returns exactly the locations (x', y') other than (x, y) with
\* |x' - x| <= range, |y' - y| <= range and 0 <= x', y' <= max, each once and
\* each with the same max.
C10_WithinRangeIsClippedSquare ==
    call.fn = "within_range"
    => /\ SeqToSet(ret) = InRange(call.self, call.range)
       /\ NoDuplicates(ret)
       /\ \A i \in 1..Len(ret) : ret[i].max = call.self.max

\* within_range(2) was called where the square is clipped on one side only
C10_Witness ==
    /\ call.fn = "within_range"
    /\ call.range = 2
    /\ call.self = Location(3, 1, 1)
    /\ Len(ret) = 15

(***************************************************************************)
(* SpecPropagate: Plant::propagate(num) called once on a parent of either  *)
(* kind, newly made or full grown, at any location of a board up to        *)
(* MaxLocMax; on the board of one section there is no candidate location   *)
(* and rng.gen_range(0..0) panics.                                         *)
(***************************************************************************)
InitPropagate ==
    /\ board = Idle
    /\ prev = Idle
    /\ op = "new"
    /\ nops = 0
    /\ \E kind \in PlantKinds : \E max \in 0..MaxLocMax :
       \E location \in Locations(max) : \E grown \in BOOLEAN :
           plant = IF grown
                   THEN [Plant_new(kind, location) EXCEPT
                            !.age = age_max_of(kind) \div 2,
                            !.health = health_max_of(kind),
                            !.size = size_max_of(kind)]
                   ELSE Plant_new(kind, location)
    /\ \E num \in 0..MaxNum : call = [fn |-> "none", num |-> num]
    /\ ret = <<>>
    /\ map = Idle
    /\ main = Idle

CallPropagate ==
    /\ call.fn = "none"
    /\ IF propagate_panics(plant)
       THEN /\ call' = [call EXCEPT !.fn = "panic"]
            /\ ret' = <<>>
       ELSE /\ call' = [call EXCEPT !.fn = "propagate"]
            /\ \E pick \in Picks(plant) : ret' = propagate(plant, call.num, pick)
    /\ prev' = plant
    /\ UNCHANGED <<board, plant, op, nops, map, main>>

NextPropagate == CallPropagate

SpecPropagate == InitPropagate /\ [][NextPropagate]_vars

(***************************************************************************)
(* Properties of Plant::propagate, under SpecPropagate.                    *)
(***************************************************************************)
\* C18: propagate(num) returns exactly num seedlings, all at one location
\* taken from nearby() when offspring_range is 1 and from
\* within_range(offspring_range) otherwise, so on the board, not the parent's
\* section and within Chebyshev distance offspring_range of it; each seedling
\* has age 0, health 1, size 1, on_fire false, no offspring, no messages and
\* the parent's kind parameters; the parent is as it was before the call.
C18_PropagateReturnsSeedlings ==
    call.fn = "propagate"
    => /\ Len(ret) = call.num
       /\ \E l \in SeqToSet(IF plant.offspring_range = 1
                            THEN nearby(plant.location)
                            ELSE within_range(plant.location, plant.offspring_range)) :
              /\ l \in InRange(plant.location, plant.offspring_range)
              /\ \A i \in 1..Len(ret) :
                     /\ ret[i] = Plant_new(plant.kind, l)
                     /\ ret[i].age = 0 /\ ret[i].health = 1 /\ ret[i].size = 1
                     /\ ~ret[i].on_fire
                     /\ ret[i].offspring = <<>> /\ ret[i].messages = <<>>
                     /\ \A f \in {"kind", "age_max", "flammability_chance", "health_max",
                                  "offspring_chance", "offspring_range", "requirements",
                                  "size_max"} : ret[i][f] = plant[f]
       /\ plant = prev

\* a full-grown Tree has sown MaxNum seedlings three sections away
C18_Witness ==
    /\ call.fn = "propagate"
    /\ call.num = MaxNum
    /\ plant.kind = "Tree"
    /\ plant.size = plant.size_max
    /\ Len(ret) = MaxNum
    /\ Abs(ret[1].location.x - plant.location.x) = 3
    /\ ret[MaxNum].location = ret[1].location

(***************************************************************************)
(* Map (map.rs).  A Vec<Vec<char>> is a sequence of sequences, so the      *)
(* element the code writes matrix[i][k] is matrix[i + 1][k + 1] here.  The *)
(* glyphs are named rather than drawn.                                     *)
(***************************************************************************)
Background == "background"
RockGlyph == "rock"
FernGlyph == "fern"
TreeGlyph == "tree"
FireGlyph == "fire"

\* PlantKind::icon
icon(kind) == IF kind = "Fern" THEN FernGlyph ELSE TreeGlyph

\* the Vec with the elements of v, each worked out once
Vec(v) == SubSeq(v, 1, Len(v))

\* Vec::reverse
Reverse(v) == Vec([i \in 1..Len(v) |-> v[Len(v) + 1 - i]])

Map_new(b) ==
    LET matrix == Vec([y \in 1..(b.size + 1) |->
                         Vec([x \in 1..(b.size + 1) |-> Background])])
    IN  [board |-> b, matrix |-> matrix, matrix_scaled |-> matrix]

plot_entity(self, location, c) ==
    [self EXCEPT !.matrix[location.x + 1][location.y + 1] = c]

RECURSIVE plot_entities(_, _, _)
plot_entities(self, locations, c) ==
    IF locations = <<>> THEN self
    ELSE plot_entities(plot_entity(self, Head(locations), c), Tail(locations), c)

\* leaves every inner vector as it is
flip_vertical_skipped(matrix_scaled) == matrix_scaled

\* flip_vertical reverses every inner vector
flip_vertical(matrix_scaled) ==
    Vec([i \in 1..Len(matrix_scaled) |-> Reverse(matrix_scaled[i])])

\* finds no row indivisible, panicking for the scale 0 alone
reduce_row_accepts_all(row, scale) == scale = 0

\* the check reduce_row starts with: row.len() % scale, which also panics
\* for a scale of 0
reduce_row_panics(row, scale) ==
    IF scale = 0 THEN TRUE ELSE Len(row) % scale # 0

\* gives the rock no precedence: the first glyph that is not the background
reduce_group_first(group) ==
    IF \A i \in 1..Len(group) : group[i] = Background
    THEN Background
    ELSE LET NotBackground(c) == c # Background
         IN  Head(SelectSeq(group, NotBackground))

\* one chunk of row.chunks(scale): a rock if it holds one, else its first
\* glyph that is not the background ('X' if there were none), and the
\* background if it holds nothing else
reduce_group(group) ==
    IF \A i \in 1..Len(group) : group[i] = Background
    THEN Background
    ELSE LET NotBackground(c) == c # Background
             initials == SelectSeq(group, NotBackground)
         IN  IF RockGlyph \in SeqToSet(initials) THEN RockGlyph
             ELSE IF initials # <<>> THEN Head(initials) ELSE "X"

\* reduce_row for a row it does not panic on
reduce_row(row, scale) ==
    Vec([k \in 1..(Len(row) \div scale) |->
            reduce_group(SubSeq(row, (k - 1) * scale + 1, k * scale))])

\* transposes without reversing first
rotate_unreversed(matrix_scaled, clockwise) ==
    Vec([i \in 1..Len(matrix_scaled[1]) |->
            Vec([k \in 1..Len(matrix_scaled) |-> matrix_scaled[k][i]])])

rotate(matrix_scaled, clockwise) ==
    LET matrix_reversed == IF clockwise THEN Reverse(matrix_scaled)
                           ELSE Vec([i \in 1..Len(matrix_scaled) |->
                                        Reverse(matrix_scaled[i])])
    IN  Vec([i \in 1..Len(matrix_reversed[1]) |->
                Vec([k \in 1..Len(matrix_reversed) |-> matrix_reversed[k][i]])])

\* reduces what the last render left in matrix_scaled, without the refresh
render_x_stale(self, scale) ==
    Vec([i \in 1..Len(self.matrix_scaled) |-> reduce_row(self.matrix_scaled[i], scale)])

\* the matrix_scaled of render, step by step, and whether a reduce_row panics
render_x(self, scale) ==
    Vec([i \in 1..Len(self.matrix) |-> reduce_row(self.matrix[i], scale)])
render_rotated(self, scale) == rotate(flip_vertical(render_x(self, scale)), TRUE)
render_y(self, scale) ==
    LET m == render_rotated(self, scale)
    IN  Vec([i \in 1..Len(m) |-> reduce_row(m[i], scale)])

render_panics(self, scale) ==
    \/ \E i \in 1..Len(self.matrix) : reduce_row_panics(self.matrix[i], scale)
    \/ LET m == render_rotated(self, scale)
       IN  \E i \in 1..Len(m) : reduce_row_panics(m[i], scale)

render(self, scale) ==
    [self EXCEPT !.matrix_scaled = flip_vertical(render_y(self, scale))]

(***************************************************************************)
(* SpecMap: a Map used as main uses one: made of a new board, entities     *)
(* plotted on it, then rendered.  Every glyph is plotted while it stands   *)
(* nowhere on the map, over whatever stands at the location; renders at    *)
(* any scale follow, and one that panics ends the run.                     *)
(***************************************************************************)
\* the glyphs plotted: the rock, a plant's icon and the fire
Glyphs == {RockGlyph, FernGlyph, FireGlyph}

\* the glyph c stands somewhere on the matrix
Plotted(matrix, c) ==
    \E i \in 1..Len(matrix) : \E k \in 1..Len(matrix[i]) : matrix[i][k] = c

InitMap ==
    /\ \E size \in 0..MaxMapMax : board = Board_new(size)
    /\ plant = Idle
    /\ prev = Idle
    /\ op = "new"
    /\ nops = 0
    /\ call = Idle
    /\ ret = Idle
    /\ map = Map_new(board)
    /\ main = Idle

PlotEntity ==
    /\ op \in {"new", "plot_entity"}
    /\ \E location \in Locations(board.size) : \E c \in Glyphs :
           /\ ~Plotted(map.matrix, c)
           /\ map' = plot_entity(map, location, c)
           /\ call' = [fn |-> "plot_entity", location |-> location, c |-> c]
    /\ op' = "plot_entity"
    /\ UNCHANGED <<board, plant, prev, nops, ret, main>>

\* what prev remembers of the renders made: the scale and the matrix_scaled of
\* the first one, and whether a render at another scale has followed it
Rendered(first, self, scale) ==
    IF first.fn = "none"
    THEN [fn |-> "render", scale |-> scale, matrix_scaled |-> self.matrix_scaled,
          others |-> FALSE]
    ELSE [first EXCEPT !.others = @ \/ scale # first.scale]

Render ==
    /\ op # "panic"
    /\ \E scale \in 0..MaxScale :
           /\ call' = [fn |-> "render", scale |-> scale]
           /\ IF render_panics(map, scale)
              THEN map' = map /\ op' = "panic" /\ prev' = prev
              ELSE /\ map' = render(map, scale)
                   /\ op' = "render"
                   /\ prev' = Rendered(prev, map', scale)
    /\ UNCHANGED <<board, plant, nops, ret, main>>

NextMap == PlotEntity \/ Render

SpecMap == InitMap /\ [][NextMap]_vars

(***************************************************************************)
(* Properties of Map::render, under SpecMap.                               *)
(***************************************************************************)
\* C13: Map::render(1) only re-orients the matrix: for every section (x, y)
\* of the board the glyph rendered at row (max - y), column x is
\* matrix[x][y]; a map of background alone renders as background alone, and
\* (0, 0) is in the bottom row, leftmost column.
C13_RenderOneReorients ==
    (op = "render" /\ call.scale = 1)
    => LET max == map.board.size
       IN  /\ Len(map.matrix_scaled) = max + 1
           /\ \A y \in 0..max :
                  /\ Len(map.matrix_scaled[(max - y) + 1]) = max + 1
                  /\ \A x \in 0..max :
                         map.matrix_scaled[(max - y) + 1][x + 1] = map.matrix[x + 1][y + 1]

\* render(1) of a map that is not its own transpose nor its own mirror: a
\* rock at (0, 0) and a plant at (0, max), shown bottom left and top left
C13_Witness ==
    /\ op = "render"
    /\ call.scale = 1
    /\ map.board.size = MaxMapMax
    /\ map.matrix[1][1] = RockGlyph
    /\ map.matrix[1][MaxMapMax + 1] = FernGlyph
    /\ map.matrix_scaled[MaxMapMax + 1][1] = RockGlyph
    /\ map.matrix_scaled[1][1] = FernGlyph
    /\ map.matrix_scaled[1][MaxMapMax + 1] = Background

\* C14: Map::render(scale) panics whenever (max + 1) % scale # 0 for a
\* positive scale, and completes whenever the scale is positive and divides
\* max + 1.
C14_RenderPanicsIffIndivisible ==
    (op \in {"render", "panic"} /\ call.scale > 0)
    => (op = "panic" <=> (map.board.size + 1) % call.scale # 0)

\* a render at a scale above 1 and below max + 1 that does not divide it has
\* panicked
C14_Witness ==
    /\ op = "panic"
    /\ call.scale > 1
    /\ call.scale < map.board.size + 1
    /\ (map.board.size + 1) % call.scale # 0

(***************************************************************************)
(* The driver (main.rs), one action per statement or loop iteration of the *)
(* body of `loop`.  main.pc is the statement to run next, main.i the index *)
(* of the entity a `for` has reached, main.trace the Effects applied and   *)
(* the evolve calls made so far in the current tick, main.plant_count the  *)
(* entities_plants.len() at the start of the pass over the plants,         *)
(* main.sown the seedlings propagate has returned in the current tick.     *)
(***************************************************************************)
Rock(location) == [location |-> location]

\* soaks up the moisture of the section and rolls to the origin
rock_evolve_rolls(self, section) ==
    [self |-> [self EXCEPT !.location.x = 0, !.location.y = 0],
     section |-> [section EXCEPT !.conditions.moisture = 0]]

\* impl Evolve for Rock: the body is empty
rock_evolve(self, section) == [self |-> self, section |-> section]

\* Location::new_random(max) is any location of the board; the driver is
\* seeded from two of them, opposite corners
SeedLocations(max) == {Location(max, 0, 0), Location(max, max, max)}

\* the scales that divide the side of the board, for map_scale
MapScales(max) == {scale \in {1, max + 1} : (max + 1) % scale = 0}

\* the plot of the living plants, in the order of entities_plants
RECURSIVE plot_plants(_, _)
plot_plants(self, plants) ==
    IF plants = <<>> THEN self
    ELSE LET e == Head(plants)
             plotted == IF ~(e.health > 0) THEN self
                        ELSE IF e.on_fire THEN plot_entity(self, e.location, FireGlyph)
                        ELSE plot_entity(self, e.location, icon(e.kind))
         IN  plot_plants(plotted, Tail(plants))

\* evolves the rocks after the sun and before the rain
following_rocks_early(pc) ==
    CASE pc = "map"     -> "status"
      [] pc = "status"  -> "light0"
      [] pc = "light0"  -> "sun"
      [] pc = "sun"     -> "rocks"
      [] pc = "rocks"   -> "rain"
      [] pc = "rain"    -> "plants"
      [] pc = "plants"  -> "harvest"
      [] pc = "harvest" -> "push"
      [] pc = "push"    -> "retain"
      [] pc = "retain"  -> "burn"
      [] OTHER          -> "map"

\* the statements of the loop body, in program order
following(pc) ==
    CASE pc = "map"     -> "status"
      [] pc = "status"  -> "light0"
      [] pc = "light0"  -> "sun"
      [] pc = "sun"     -> "rain"
      [] pc = "rain"    -> "rocks"
      [] pc = "rocks"   -> "plants"
      [] pc = "plants"  -> "harvest"
      [] pc = "harvest" -> "push"
      [] pc = "push"    -> "retain"
      [] pc = "retain"  -> "burn"
      [] OTHER          -> "map"

\* moves the offspring into the population as soon as they are sown
evolved_and_pushed(plants, i, after) ==
    [plants EXCEPT ![i] = [after EXCEPT !.offspring = <<>>]] \o after.offspring

\* what the evolve of entities_plants[i] leaves in entities_plants
evolved_in_place(plants, i, after) == [plants EXCEPT ![i] = after]

\* what propagate returned in the evolve that made `after` of `self`: the
\* offspring buffer, if the call has written it
returned(self, after) ==
    IF after.offspring # self.offspring THEN after.offspring ELSE <<>>

\* collects the offspring of the last plant only
collect_last_offspring(plants) ==
    IF plants = <<>> THEN <<>> ELSE plants[Len(plants)].offspring

\* the new_plants of the harvest: the offspring of every plant, in order
collect_offspring(plants) ==
    Flatten([i \in 1..Len(plants) |-> plants[i].offspring])

\* the number of seedlings waiting in the offspring buffers
Pending(plants) == Len(Flatten([i \in 1..Len(plants) |-> plants[i].offspring]))

InitDriver ==
    /\ board = Board_new(BoardMax)
    /\ plant = Idle
    /\ prev = Idle
    /\ op = "new"
    /\ nops = 0
    /\ call = Idle
    /\ ret = Idle
    /\ map = Idle
    /\ \E fern \in SeedLocations(BoardMax) : \E tree \in SeedLocations(BoardMax) :
       \E rock \in SeedLocations(BoardMax) : \E map_scale \in MapScales(BoardMax) :
           main = [ pc              |-> "map",
                    i               |-> 1,
                    tick            |-> 0,
                    map_scale       |-> map_scale,
                    entities_plants |-> <<Plant_new("Fern", fern), Plant_new("Tree", tree)>>,
                    entities_rocks  |-> <<Rock(rock)>>,
                    new_plants      |-> <<>>,
                    plant_count     |-> 0,
                    sown            |-> <<>>,
                    trace           |-> <<>> ]

\* if tick > tick_max && tick_max != 0 { break }
Break ==
    /\ main.pc = "map"
    /\ main.tick > TickMax
    /\ main' = [main EXCEPT !.pc = "done"]
    /\ op' = "break"
    /\ UNCHANGED <<board, plant, prev, nops, call, ret, map>>

\* Map::new(board.clone()), the living plants plotted, then the rocks, render
DrawMap ==
    /\ main.pc = "map"
    /\ main.tick <= TickMax
    /\ LET plotted == plot_entities(plot_plants(Map_new(board), main.entities_plants),
                                    [i \in 1..Len(main.entities_rocks) |->
                                        main.entities_rocks[i].location],
                                    RockGlyph)
       IN  IF render_panics(plotted, main.map_scale)
           THEN map' = plotted /\ main' = [main EXCEPT !.pc = "panic"]
           ELSE /\ map' = render(plotted, main.map_scale)
                /\ main' = [main EXCEPT !.pc = following(main.pc), !.trace = <<>>,
                                        !.sown = <<>>]
    /\ op' = "map"
    /\ UNCHANGED <<board, plant, prev, nops, call, ret>>

\* the messages of every plant are printed and cleared
PrintStatus ==
    /\ main.pc = "status"
    /\ main' = [main EXCEPT
                  !.pc = following(main.pc),
                  !.entities_plants = [i \in 1..Len(@) |-> [@[i] EXCEPT !.messages = <<>>]]]
    /\ op' = "status"
    /\ UNCHANGED <<board, plant, prev, nops, call, ret, map>>

\* Effect::Light(0).apply_global(&mut board)
ResetLight ==
    /\ main.pc = "light0"
    /\ board' = apply_global(Light(0), board)
    /\ main' = [main EXCEPT !.pc = following(main.pc), !.trace = Append(@, "Light(0)")]
    /\ op' = "light0"
    /\ UNCHANGED <<plant, prev, nops, call, ret, map>>

\* sun.apply_global(&mut board)
Sun ==
    /\ main.pc = "sun"
    /\ board' = apply_global(Light(70), board)
    /\ main' = [main EXCEPT !.pc = following(main.pc), !.trace = Append(@, "Light(70)")]
    /\ op' = "sun"
    /\ UNCHANGED <<plant, prev, nops, call, ret, map>>

\* rain.apply_global(&mut board)
Rain ==
    /\ main.pc = "rain"
    /\ board' = apply_global(Moisture(6), board)
    /\ main' = [main EXCEPT !.pc = following(main.pc), !.i = 1,
                            !.trace = Append(@, "Moisture(6)")]
    /\ op' = "rain"
    /\ UNCHANGED <<plant, prev, nops, call, ret, map>>

\* for e in &mut entities_rocks { e.evolve(..) }, one rock a step
EvolveRock ==
    /\ main.pc = "rocks"
    /\ LET e == main.entities_rocks[main.i]
           after == rock_evolve(e, section_of(board, e.location))
           last == main.i = Len(main.entities_rocks)
       IN  /\ board' = [board EXCEPT !.matrix[e.location.x][e.location.y] = after.section]
           /\ main' = [main EXCEPT
                         !.entities_rocks[main.i] = after.self,
                         !.trace = Append(@, "rock"),
                         !.plant_count = IF last THEN Len(main.entities_plants) ELSE @,
                         !.i = IF last THEN 1 ELSE @ + 1,
                         !.pc = IF last THEN following(main.pc) ELSE @]
    /\ op' = "rock"
    /\ UNCHANGED <<plant, prev, nops, call, ret, map>>

\* for e in &mut entities_plants { e.evolve(..) }, one plant a step
EvolvePlant ==
    /\ main.pc = "plants"
    /\ LET e == main.entities_plants[main.i]
           section == section_of(board, e.location)
           last == main.i = Len(main.entities_plants)
           room == Len(main.entities_plants) + Pending(main.entities_plants) < MaxPlants
       IN  \E rand \in Draws :
           \E pick \in (IF DrawsPick(e, rand) THEN Picks(e) ELSE {1}) :
               /\ DrawsPick(e, rand) => room
               /\ LET after == evolve(e, section, rand, pick)
                  IN  IF after.panic
                      THEN /\ main' = [main EXCEPT !.pc = "panic"]
                           /\ UNCHANGED board
                      ELSE /\ board' = [board EXCEPT
                                          !.matrix[e.location.x][e.location.y] = after.section]
                           /\ main' = [main EXCEPT
                                         !.entities_plants =
                                             evolved_in_place(@, main.i, after.self),
                                         !.sown = @ \o returned(e, after.self),
                                         !.trace = Append(@, "plant"),
                                         !.i = IF last THEN 1 ELSE @ + 1,
                                         !.pc = IF last THEN following(main.pc) ELSE @]
    /\ op' = "plant"
    /\ UNCHANGED <<plant, prev, nops, call, ret, map>>

\* new_plants.push(p.clone()) for every offspring; e.offspring.clear()
HarvestOffspring ==
    /\ main.pc = "harvest"
    /\ main' = [main EXCEPT
                  !.pc = following(main.pc),
                  !.new_plants = collect_offspring(main.entities_plants),
                  !.entities_plants = [i \in 1..Len(@) |-> [@[i] EXCEPT !.offspring = <<>>]]]
    /\ op' = "harvest"
    /\ UNCHANGED <<board, plant, prev, nops, call, ret, map>>

\* for plant in new_plants { entities_plants.push(plant) }
PushOffspring ==
    /\ main.pc = "push"
    /\ main' = [main EXCEPT
                  !.pc = following(main.pc),
                  !.entities_plants = @ \o main.new_plants,
                  !.new_plants = <<>>]
    /\ op' = "push"
    /\ UNCHANGED <<board, plant, prev, nops, call, ret, map>>

\* entities_plants.retain(|e| e.alive())
Retain ==
    /\ main.pc = "retain"
    /\ main' = [main EXCEPT
                  !.pc = following(main.pc),
                  !.entities_plants = SelectSeq(@, alive)]
    /\ op' = "retain"
    /\ UNCHANGED <<board, plant, prev, nops, call, ret, map>>

\* the outcomes of `flammable`: below and not below a flammability_chance
Flammables == {0, 99999}

\* slash and burn above plant_limit; break if everything is extinct;
\* tick += 1
Burn ==
    /\ main.pc = "burn"
    /\ \E flammable \in [1..Len(main.entities_plants) -> Flammables] :
           LET burnt == IF Len(main.entities_plants) > PlantLimit
                        THEN [i \in 1..Len(main.entities_plants) |->
                                 IF flammable[i] < main.entities_plants[i].flammability_chance
                                 THEN [main.entities_plants[i] EXCEPT !.on_fire = TRUE]
                                 ELSE main.entities_plants[i]]
                        ELSE main.entities_plants
           IN  main' = IF Len(main.entities_plants) = 0
                       THEN [main EXCEPT !.pc = "done", !.entities_plants = burnt]
                       ELSE [main EXCEPT !.pc = following(main.pc),
                                         !.entities_plants = burnt,
                                         !.tick = @ + 1]
    /\ op' = "burn"
    /\ UNCHANGED <<board, plant, prev, nops, call, ret, map>>

NextDriver ==
    \/ Break \/ DrawMap \/ PrintStatus \/ ResetLight \/ Sun \/ Rain
    \/ EvolveRock \/ EvolvePlant \/ HarvestOffspring \/ PushOffspring
    \/ Retain \/ Burn

SpecDriver == InitDriver /\ [][NextDriver]_vars

(***************************************************************************)
(* Properties of the driver, under SpecDriver.                             *)
(***************************************************************************)
\* how many times the event stands in the trace
Count(trace, event) == Cardinality({k \in 1..Len(trace) : trace[k] = event})

\* age 0, health 1, size 1
Seedling(e) == e.age = 0 /\ e.health = 1 /\ e.size = 1

\* C16: a plant produced by propagate during the pass over the plants is not
\* evolved in that tick: nothing joins entities_plants during the pass, at
\* the end of the pass every plant of the population has been evolved once
\* and the seedlings wait in the offspring buffers; they join after the
\* pass, behind the others, with age 0, health 1 and size 1, and the pass of
\* the following tick is the first to evolve them.
C16_SeedlingsJoinAfterThePass ==
    LET plants == main.entities_plants
    IN  /\ main.pc \in {"plants", "harvest", "push"}
               => Len(plants) = main.plant_count
        /\ main.pc = "plants"
               => /\ Count(main.trace, "plant") = main.i - 1
                  /\ \A k \in 1..Len(plants) : k < main.i => plants[k].age >= 1
        /\ main.pc = "harvest"
               => /\ Count(main.trace, "plant") = main.plant_count
                  /\ \A k \in 1..Len(plants) :
                         /\ plants[k].age >= 1
                         /\ \A n \in 1..Len(plants[k].offspring) :
                                Seedling(plants[k].offspring[n])
        /\ main.pc = "push"
               => \A n \in 1..Len(main.new_plants) : Seedling(main.new_plants[n])
        /\ main.pc = "retain"
               => /\ Len(plants) >= main.plant_count
                  /\ \A k \in 1..Len(plants) :
                         IF k <= main.plant_count
                         THEN plants[k].age >= 1 /\ plants[k].offspring = <<>>
                         ELSE Seedling(plants[k])
                  /\ Count(main.trace, "plant") = main.plant_count

\* a seedling sown in this tick's pass has just joined the population, which
\* was evolved without it
C16_Witness ==
    /\ op = "push"
    /\ Len(main.entities_plants) = main.plant_count + 1
    /\ Seedling(main.entities_plants[Len(main.entities_plants)])
    /\ main.entities_plants[Len(main.entities_plants)].kind = "Fern"
    /\ Count(main.trace, "plant") = main.plant_count

\* C17: in every tick the three global Effects (Light(0), Light(70),
\* Moisture(6)) are applied to the whole board before any evolve is called,
\* and every rock's evolve is called before any plant's.
C17_EffectsThenRocksThenPlants ==
    LET trace == main.trace
    IN  /\ \A k \in 1..Len(trace) :
               trace[k] \in {"rock", "plant"}
               => /\ k > 3
                  /\ SubSeq(trace, 1, 3) = <<"Light(0)", "Light(70)", "Moisture(6)">>
        /\ \A k \in 1..Len(trace) :
               trace[k] = "plant"
               => /\ \A j \in 1..Len(trace) : trace[j] = "rock" => j < k
                  /\ Count(trace, "rock") = Len(main.entities_rocks)
        /\ op = "rain"
               => \A x \in 0..board.size : \A y \in 0..board.size :
                      /\ board.matrix[x][y].conditions.light = 70
                      /\ board.matrix[x][y].conditions.moisture = 6

\* the pass over three plants has ended, in a tick after the first
C17_Witness ==
    /\ op = "plant"
    /\ main.pc = "harvest"
    /\ main.tick > 0
    /\ main.trace = <<"Light(0)", "Light(70)", "Moisture(6)", "rock",
                      "plant", "plant", "plant">>

\* C21: rocks take display precedence: in the map the driver renders, the
\* section of every rock holds the rock glyph, a plant living or burning in
\* the same section or not, and the scale x scale block of every rock shows
\* the rock glyph, wherever in the block the rock lies and whatever else the
\* block holds.
C21_RocksTakePrecedence ==
    (map # Idle /\ main.pc # "panic")
    => \A r \in 1..Len(main.entities_rocks) :
           LET l == main.entities_rocks[r].location
               scale == main.map_scale
               rows == (board.size + 1) \div scale
           IN  /\ map.matrix[l.x + 1][l.y + 1] = RockGlyph
               /\ map.matrix_scaled[(rows - 1 - (l.y \div scale)) + 1][(l.x \div scale) + 1]
                      = RockGlyph

\* the driver has rendered, in one block, a rock lying last in the block with
\* a living plant in its own section and a burning plant in another section
C21_Witness ==
    /\ op = "map"
    /\ main.map_scale = BoardMax + 1
    /\ main.entities_rocks[1].location = Location(BoardMax, BoardMax, BoardMax)
    /\ \E i \in 1..Len(main.entities_plants) : \E k \in 1..Len(main.entities_plants) :
           /\ alive(main.entities_plants[i])
           /\ main.entities_plants[i].location = main.entities_rocks[1].location
           /\ alive(main.entities_plants[k])
           /\ main.entities_plants[k].on_fire
           /\ main.entities_plants[k].location = Location(BoardMax, 0, 0)
    /\ map.matrix[1][1] = FireGlyph
    /\ map.matrix_scaled = <<<<RockGlyph>>>>

\* C22: Rock::evolve is a no-op: the call changes neither the rock nor any
\* field of the section it is given (so nothing of the board), and no step of
\* the driver, in any tick, changes entities_rocks: no rock moves, dies or is
\* removed.
C22_Step ==
    /\ main'.entities_rocks = main.entities_rocks
    /\ op' = "rock" => board' = board

C22_RocksAreInert == [][C22_Step]_vars

\* the rock seeded at the far corner has been evolved in the last tick, and
\* its section still holds all of the rain
C22_Witness ==
    /\ op = "rock"
    /\ main.tick = TickMax
    /\ main.entities_rocks = <<Rock(Location(BoardMax, BoardMax, BoardMax))>>
    /\ section_of(board, main.entities_rocks[1].location).conditions.moisture = 6

(***************************************************************************)
(* More properties of Map::render, under SpecMap.                          *)
(***************************************************************************)
\* the glyphs of the sections (x, y) of matrix in x-block xb and y-block yb
Block(matrix, scale, xb, yb) ==
    {matrix[x + 1][y + 1] : x \in (xb * scale)..(xb * scale + scale - 1),
                            y \in (yb * scale)..(yb * scale + scale - 1)}

\* C23: for a positive scale dividing N = max + 1, render(scale) leaves
\* N/scale rows of N/scale glyphs in matrix_scaled, and the glyph at row
\* (N/scale - 1 - yb), column xb is the background iff every section of the
\* block (xb, yb) of matrix is background; otherwise it is a glyph, not the
\* background, that stands in that block.
C23_RenderReducesBlocks ==
    (op = "render" /\ call.scale > 0)
    => LET scale == call.scale
           rows == (map.board.size + 1) \div scale
       IN  /\ (map.board.size + 1) % scale = 0
           /\ Len(map.matrix_scaled) = rows
           /\ \A yb \in 0..(rows - 1) :
                  /\ Len(map.matrix_scaled[(rows - 1 - yb) + 1]) = rows
                  /\ \A xb \in 0..(rows - 1) :
                         LET glyph == map.matrix_scaled[(rows - 1 - yb) + 1][xb + 1]
                             block == Block(map.matrix, scale, xb, yb)
                         IN  /\ glyph = Background <=> block = {Background}
                             /\ glyph \in block

\* render(2) of a 4x4 map: a fern and a fire in the block top left, a rock in
\* the block bottom right, nothing in the other two
C23_Witness ==
    /\ op = "render"
    /\ call.scale = 2
    /\ map.board.size = 3
    /\ Block(map.matrix, 2, 0, 1) = {Background, FernGlyph, FireGlyph}
    /\ Block(map.matrix, 2, 1, 0) = {Background, RockGlyph}
    /\ map.matrix_scaled[1][2] = Background
    /\ map.matrix_scaled[2][1] = Background
    /\ map.matrix_scaled[2][2] = RockGlyph
    /\ map.matrix_scaled[1][1] \in {FernGlyph, FireGlyph}

(***************************************************************************)
(* More properties of the driver, under SpecDriver.                        *)
(***************************************************************************)
\* C24: a plant's evolve, as the driver calls it, changes nothing of the
\* board but the moisture of the section at the plant's own location: every
\* other section, and the light, oxygen and location of its own, are after
\* the call what they were before.
C24_Step ==
    op' = "plant"
    => LET e == main.entities_plants[main.i]
       IN  /\ board'.size = board.size
           /\ \A x \in 0..board.size : \A y \in 0..board.size :
                  IF x = e.location.x /\ y = e.location.y
                  THEN board'.matrix[x][y] =
                           [board.matrix[x][y] EXCEPT
                               !.conditions.moisture = board'.matrix[x][y].conditions.moisture]
                  ELSE board'.matrix[x][y] = board.matrix[x][y]

C24_EvolveTouchesOwnMoisture == [][C24_Step]_vars

\* the last plant of the pass has drunk from its section, the two others
\* share another one, a section nobody stands on holds all of the rain, and
\* the light is whole
C24_Witness ==
    /\ op = "plant"
    /\ main.pc = "harvest"
    /\ LET plants == main.entities_plants
           e == plants[Len(plants)]
       IN  /\ Len(plants) = 3
           /\ section_of(board, e.location).conditions.moisture < 6
           /\ plants[1].location # e.location
           /\ plants[2].location = plants[1].location
           /\ section_of(board, Location(BoardMax, 0, BoardMax)).conditions.moisture = 6
    /\ \A x \in 0..board.size : \A y \in 0..board.size :
           board.matrix[x][y].conditions.light = 70

(***************************************************************************)
(* More properties of Plant::evolve, under Spec.                           *)
(***************************************************************************)
\* C25: death by old age comes first: in the evolve call where a living
\* plant's incremented age exceeds age_max, health becomes 0 and nothing else
\* happens: the section's moisture and the plant's size are unchanged, the
\* fire does no damage of its own and no offspring are produced, be the plant
\* mature, burning or on a section with moisture to spare.
C25_OldAgeComesFirst ==
    (op = "evolve" /\ alive(prev.self) /\ prev.self.age + 1 > prev.self.age_max)
    => /\ plant = [prev.self EXCEPT !.age = @ + 1,
                                    !.health = 0,
                                    !.messages = Append(@, death_message(prev.self))]
       /\ section_of(board, plant.location) = prev.section

\* a mature plant with an empty offspring buffer, not burning, on a section
\* with moisture to spare, has died of old age without drinking or sowing
C25_Witness ==
    /\ op = "evolve"
    /\ prev.self.age = prev.self.age_max
    /\ mature(prev.self)
    /\ ~prev.self.on_fire
    /\ prev.self.offspring = <<>>
    /\ prev.section.conditions.moisture > required_moisture(prev.self)
    /\ plant.health = 0
    /\ plant.offspring = <<>>
    /\ section_of(board, plant.location).conditions.moisture
           = prev.section.conditions.moisture

\* the location lies on the board of the driver
OnBoard(location) ==
    /\ location.max = board.size
    /\ location.x \in 0..location.max
    /\ location.y \in 0..location.max

\* every plant and rock the driver holds, the seedlings in the offspring
\* buffers and in new_plants included, is on the board
AllOnBoard(m) ==
    /\ \A i \in 1..Len(m.entities_rocks) : OnBoard(m.entities_rocks[i].location)
    /\ \A i \in 1..Len(m.new_plants) : OnBoard(m.new_plants[i].location)
    /\ \A i \in 1..Len(m.entities_plants) :
           /\ OnBoard(m.entities_plants[i].location)
           /\ \A n \in 1..Len(m.entities_plants[i].offspring) :
                  OnBoard(m.entities_plants[i].offspring[n].location)

\* C26: in every state the driver reaches, from the seeding on, every plant
\* and rock has 0 <= x <= max and 0 <= y <= max with max the size of the
\* board, and no step changes the location of a plant: a step leaves every
\* plant where it was, the discard of the dead only removing plants.
C26_Step ==
    /\ AllOnBoard(main) /\ AllOnBoard(main')
    /\ board'.size = board.size
    /\ LET plants == main.entities_plants
           after == main'.entities_plants
       IN  IF op' = "retain"
           THEN \A k \in 1..Len(after) : \E i \in k..Len(plants) : after[k] = plants[i]
           ELSE /\ Len(after) >= Len(plants)
                /\ \A i \in 1..Len(plants) : after[i].location = plants[i].location

C26_LocationsStayOnBoard == [][C26_Step]_vars

\* in the last tick the population holds the two seeded plants and a Fern
\* sown next to its parent, off the corners the seeds were put on
C26_Witness ==
    /\ main.tick = TickMax
    /\ main.pc = "burn"
    /\ Len(main.entities_plants) = 3
    /\ main.entities_plants[1].location = Location(BoardMax, BoardMax, BoardMax)
    /\ main.entities_plants[3].kind = "Fern"
    /\ main.entities_plants[3].location = Location(BoardMax, BoardMax - 1, BoardMax)
    /\ main.entities_plants[3].age > 0

(***************************************************************************)
(* More properties of Location and Plant::propagate, under SpecLoc.        *)
(***************************************************************************)
\* C27: on every board of more than one section (max >= 1), at every
\* location and for every range >= 1, nearby() and within_range(range) return
\* at least one candidate, so propagate, for a plant of either kind anywhere
\* on such a board, finds a location to pick and does not fail.
C27_CandidatesExist ==
    /\ (call.fn \in {"nearby", "within_range"} /\ call.self.max >= 1) => Len(ret) >= 1
    /\ \A kind \in PlantKinds : \A max \in 1..MaxLocMax : \A location \in Locations(max) :
           /\ ~propagate_panics(Plant_new(kind, location))
           /\ Picks(Plant_new(kind, location)) # {}

\* nearby() in a corner of the board of four sections has returned the three
\* other sections
C27_Witness ==
    /\ call.fn = "nearby"
    /\ call.self = Location(1, 1, 1)
    /\ Len(ret) = 3
    /\ SeqToSet(ret) = Locations(1) \ {call.self}

(***************************************************************************)
(* More properties of Effect, under SpecEffect.                            *)
(***************************************************************************)
\* C28: each Effect touches one field only: an apply or an append, global or
\* of one section, of Light(d) changes nothing but light, of Moisture(d)
\* nothing but moisture, and of Oxygen(d) nothing at all; the other fields of
\* the conditions and the location of every section are what they were.
C28_EffectTouchesOneField ==
    nops > 0
    => /\ board.size = prev.size
       /\ \A x \in 0..board.size : \A y \in 0..board.size :
              LET before == prev.matrix[x][y]
                  after == board.matrix[x][y]
              IN  CASE op.effect.kind = "Light" ->
                         after = [before EXCEPT !.conditions.light = after.conditions.light]
                    [] op.effect.kind = "Moisture" ->
                         after = [before EXCEPT
                                     !.conditions.moisture = after.conditions.moisture]
                    [] OTHER -> after = before

\* Oxygen(5) has been appended to a board of some light and moisture, which
\* is as it was, and Light(70) was applied to one section of it before
C28_Witness ==
    /\ nops = MaxEffects
    /\ op.name = "append_global"
    /\ op.effect = Oxygen(5)
    /\ board = prev
    /\ \E x \in 0..board.size : \E y \in 0..board.size :
           /\ board.matrix[x][y].conditions.light = 70
           /\ board.matrix[0][0].conditions.light = 0
           /\ <<x, y>> # <<0, 0>>

\* the tick has done its harvest and its discard, and nothing since
EndOfTick == main.pc = "burn"

\* C29: at the end of every tick of the driver, after the harvest and the
\* discard, every plant of the population has health > 0 and an empty
\* offspring buffer, and the seedlings propagate returned during the tick are
\* in the population, each of them once: the plants of age 0 are those
\* seedlings, one for one.
C29_EndOfTickPopulation ==
    EndOfTick
    => LET newborn(e) == e.age = 0
       IN  /\ \A i \in 1..Len(main.entities_plants) :
                  /\ main.entities_plants[i].health > 0
                  /\ main.entities_plants[i].offspring = <<>>
           /\ SelectSeq(main.entities_plants, newborn) = main.sown
           /\ main.new_plants = <<>>

\* a tick ends in which a Fern has sown a seedling, now the last plant of a
\* population of living plants with empty buffers
C29_Witness ==
    /\ main.pc = "burn"
    /\ op = "retain"
    /\ Len(main.sown) = 1
    /\ main.plant_count = 2
    /\ Len(main.entities_plants) = 3
    /\ main.entities_plants[1].kind = "Fern"
    /\ main.entities_plants[1].offspring = <<>>
    /\ main.entities_plants[3] = main.sown[1]

\* C30: every death message Plant::evolve appends is drained by the driver
\* before the plant is discarded: when the driver comes to discard the dead,
\* no dead plant holds a message still.
C30_DeathMessagesAreDrained ==
    main.pc = "retain"
    => \A i \in 1..Len(main.entities_plants) :
           ~alive(main.entities_plants[i]) => main.entities_plants[i].messages = <<>>

\* C31: when evolve runs on a burning plant that is alive and not past its
\* age_max, the health it loses in that call is a whole number between 0 and
\* health_max / 10: 0 for a Fern, 0 or 1 for a Tree; and if that loss brings
\* the health to 0, the moisture of its section is what it was before the call.
C31_FireDamageIsATenth ==
    (/\ op = "evolve"
     /\ alive(prev.self)
     /\ prev.self.on_fire
     /\ prev.self.age + 1 <= prev.self.age_max)
    => LET d == prev.self.health - plant.health
       IN  /\ d \in 0..(plant.health_max \div 10)
           /\ plant.kind = "Fern" => d = 0
           /\ plant.kind = "Tree" => d \in {0, 1}
           /\ plant.health = 0
              => section_of(board, plant.location).conditions.moisture
                     = prev.section.conditions.moisture

\* a burning Tree within its lifespan loses its one point of health to the
\* fire, over a section that holds moisture
C31_Witness ==
    /\ op = "evolve"
    /\ plant.kind = "Tree"
    /\ prev.self.on_fire
    /\ prev.self.age + 1 <= prev.self.age_max
    /\ prev.self.health = 1
    /\ plant.health = 0
    /\ prev.section.conditions.moisture > 0

\* the health and the size of a plant are within their bounds
WithinBounds(self) ==
    /\ 0 <= self.health /\ self.health <= self.health_max
    /\ 1 <= self.size /\ self.size <= self.size_max

C34_Step ==
    /\ plant.on_fire => plant'.on_fire
    /\ (op' = "evolve" /\ plant.on_fire)
       => /\ plant'.health <= plant.health
          /\ plant'.size <= plant.size
          /\ section_of(board', plant.location).conditions.moisture
                 = section_of(board, plant.location).conditions.moisture
          /\ plant'.offspring = plant.offspring

C34_FireIsPermanentAndStopsGrowth == [][C34_Step]_vars

\* a burning Fern, mature and still short of its size_max, has been evolved
\* over a section with the moisture it requires, and lives on
C34_Witness ==
    /\ op = "evolve"
    /\ prev.self.on_fire
    /\ plant.on_fire
    /\ alive(plant)
    /\ mature(prev.self)
    /\ prev.self.size < prev.self.size_max
    /\ prev.section.conditions.moisture >= prev.self.requirements.moisture.v
    /\ plant.size = prev.self.size
    /\ plant.offspring = <<>>

\* C35: Map::render recomputes matrix_scaled from matrix alone: a render
\* leaves matrix and the board snapshot as they were, and a render at the
\* scale of the first render, whatever renders at other scales came between,
\* leaves in matrix_scaled what the first render left there.
C35_Step ==
    op' = "render"
    => /\ map'.matrix = map.matrix
       /\ map'.board = map.board
       /\ call'.scale = prev'.scale => map'.matrix_scaled = prev'.matrix_scaled

C35_RenderRecomputesFromMatrix == [][C35_Step]_vars

\* a map with a fern plotted is rendered at a scale that reduces it, then at
\* another scale, then at the first scale again
C35_Witness ==
    /\ op = "render"
    /\ prev.fn = "render"
    /\ prev.others
    /\ call.scale = prev.scale
    /\ call.scale > 1
    /\ Plotted(map.matrix, FernGlyph)
    /\ Len(map.matrix_scaled) < Len(map.matrix)
    /\ map.matrix_scaled = prev.matrix_scaled

(***************************************************************************)
(* SpecLife: the loop of main.rs as one plant of entities_plants lives it, *)
(* from the tick it joins to the tick it is discarded.  main.seed is the   *)
(* plant as it joined, main.tick the ticks since, nops the evolve calls    *)
(* made on it.  The rest of the population shows in what it leaves of the  *)
(* rain in the plant's section and in whether the population is above      *)
(* plant_limit; the seedlings the plant sows are harvested and live lives  *)
(* of their own.                                                           *)
(***************************************************************************)
life_following(pc) ==
    CASE pc = "rain"    -> "others"
      [] pc = "others"  -> "plants"
      [] pc = "plants"  -> "harvest"
      [] pc = "harvest" -> "retain"
      [] pc = "retain"  -> "burn"
      [] OTHER          -> "rain"

InitLife ==
    /\ board = Board_new(BoardMax)
    /\ plant = Idle
    /\ prev = Idle
    /\ op = "new"
    /\ nops = 0
    /\ call = Idle
    /\ ret = Idle
    /\ map = Idle
    /\ \E kind \in PlantKinds : \E location \in SeedLocations(BoardMax) :
           main = [ pc              |-> "rain",
                    tick            |-> 0,
                    seed            |-> Plant_new(kind, location),
                    entities_plants |-> <<Plant_new(kind, location)>> ]

\* rain.apply_global(&mut board)
LifeRain ==
    /\ main.pc = "rain"
    /\ main.tick < LifeTicks
    /\ board' = apply_global(Moisture(6), board)
    /\ main' = [main EXCEPT !.pc = life_following(main.pc)]
    /\ op' = "rain"
    /\ UNCHANGED <<plant, prev, nops, call, ret, map>>

\* the plants evolved before this one in the pass, from the same section:
\* they leave all, half or none of its moisture
LifeOthers ==
    /\ main.pc = "others"
    /\ LET e == main.entities_plants[1]
       IN  \E left \in Rains :
               board' = [board EXCEPT
                           !.matrix[e.location.x][e.location.y].conditions.moisture = left]
    /\ main' = [main EXCEPT !.pc = life_following(main.pc)]
    /\ op' = "others"
    /\ UNCHANGED <<plant, prev, nops, call, ret, map>>

\* e.evolve(&mut board.matrix[e.location.x][e.location.y])
LifeEvolve ==
    /\ main.pc = "plants"
    /\ LET e == main.entities_plants[1]
           section == section_of(board, e.location)
       IN  \E rand \in Draws :
           \E pick \in (IF DrawsPick(e, rand) THEN Picks(e) ELSE {1}) :
               LET after == evolve(e, section, rand, pick)
               IN  /\ prev' = Snapshot(e, section)
                   /\ IF after.panic
                      THEN /\ main' = [main EXCEPT !.pc = "panic"]
                           /\ UNCHANGED board
                      ELSE /\ board' = [board EXCEPT
                                          !.matrix[e.location.x][e.location.y] = after.section]
                           /\ main' = [main EXCEPT
                                         !.entities_plants =
                                             evolved_in_place(@, 1, after.self),
                                         !.pc = life_following(main.pc)]
    /\ nops' = nops + 1
    /\ op' = "plant"
    /\ UNCHANGED <<plant, call, ret, map>>

\* new_plants.push(p.clone()) for every offspring; e.offspring.clear()
LifeHarvest ==
    /\ main.pc = "harvest"
    /\ main' = [main EXCEPT
                  !.pc = life_following(main.pc),
                  !.entities_plants = [i \in 1..Len(@) |-> [@[i] EXCEPT !.offspring = <<>>]]]
    /\ op' = "harvest"
    /\ UNCHANGED <<board, plant, prev, nops, call, ret, map>>

\* entities_plants.retain(|e| e.alive())
LifeRetain ==
    /\ main.pc = "retain"
    /\ main' = [main EXCEPT
                  !.pc = life_following(main.pc),
                  !.entities_plants = SelectSeq(@, alive)]
    /\ op' = "retain"
    /\ UNCHANGED <<board, plant, prev, nops, call, ret, map>>

\* slash and burn if the population is above plant_limit; break if the plant
\* is gone; tick += 1
LifeBurn ==
    /\ main.pc = "burn"
    /\ \E above \in BOOLEAN : \E flammable \in Flammables :
           LET burnt == [i \in 1..Len(main.entities_plants) |->
                            IF above /\ flammable < main.entities_plants[i].flammability_chance
                            THEN [main.entities_plants[i] EXCEPT !.on_fire = TRUE]
                            ELSE main.entities_plants[i]]
           IN  main' = IF Len(main.entities_plants) = 0
                       THEN [main EXCEPT !.pc = "done"]
                       ELSE [main EXCEPT !.pc = life_following(main.pc),
                                         !.entities_plants = burnt,
                                         !.tick = @ + 1]
    /\ op' = "burn"
    /\ UNCHANGED <<board, plant, prev, nops, call, ret, map>>

NextLife ==
    \/ LifeRain \/ LifeOthers \/ LifeEvolve \/ LifeHarvest \/ LifeRetain \/ LifeBurn

SpecLife == InitLife /\ [][NextLife]_vars

\* C33: every plant dies: its age counts the evolve calls made on it, and
\* once age_max + 1 calls are made its health is 0, whatever moisture it
\* found, whether it burnt and whatever the draws were; and the driver has
\* discarded it when the tick age_max + 1 after it joined ends.
C33_EveryPlantDies ==
    /\ \A i \in 1..Len(main.entities_plants) :
           /\ main.entities_plants[i].age = nops
           /\ nops >= main.seed.age_max + 1 => main.entities_plants[i].health = 0
    /\ nops <= main.seed.age_max + 1
    /\ (\/ main.tick > main.seed.age_max
        \/ main.tick = main.seed.age_max /\ main.pc \in {"burn", "done"})
       => main.entities_plants = <<>>

\* a Tree that never burnt and had grown to its health_max and its size_max
\* dies in the evolve call 81 and is discarded in the tick 80 of its life
C33_Witness ==
    /\ main.pc = "done"
    /\ main.seed.kind = "Tree"
    /\ main.tick = main.seed.age_max
    /\ nops = main.seed.age_max + 1
    /\ main.entities_plants = <<>>
    /\ ~prev.self.on_fire
    /\ prev.self.health = prev.self.health_max
    /\ prev.self.size = prev.self.size_max

====
